---- MODULE Spec2Model ----
(***************************************************************************)
(* Arcy<T>: an Arc-like handle whose last release wakes a background task  *)
(* (the "slayer") that takes the shared cell out of its Arc and runs the   *)
(* asynchronous finalizer AsyncDrop::async_drop on the payload.            *)
(*                                                                         *)
(* One Shared Cell is modelled.  Every atomic operation, every Arc         *)
(* reference-count change and every Notify operation of src/lib.rs is one  *)
(* step, so that the steps of handles running on different worker threads  *)
(* and of the slayer task interleave freely.  The read-modify-write        *)
(* operations on one atomic are totally ordered and Notify is internally   *)
(* synchronised, so an interleaving model covers the Relaxed / Release /   *)
(* Acquire orderings the code uses.                                        *)
(***************************************************************************)
EXTENDS Integers, FiniteSets

\* Number of handles (the original and its clones) one run may create.
MaxHandles == 3

Handles == 1..MaxHandles

NoHandle == 0

VARIABLES
    count,          \* ArcyInner.1, the explicit AtomicUsize reference count
    strong,         \* strong count of the Arc<ArcyInner<T>> allocation
    nstrong,        \* strong count of the Arc<Notify> allocation
    permit,         \* the permit stored inside the Notify
    hpc,            \* per handle: where it is in its life (clone, live, drop)
    src,            \* per handle being cloned: the handle Arcy::clone borrows
    spc,            \* where the slayer task is
    value,          \* the payload T: "alive" or "dropped"
    outcome,        \* result of the slayer task as stored for its JoinHandle
    join,           \* what the caller did with the JoinHandle
    abortReq,       \* JoinHandle::abort was called
    payloadPanics,  \* whether this payload's async_drop panics (an input)
    asyncDropBy,    \* history: who invoked async_drop
    asyncDropCalls, \* history: number of invocations of async_drop
    notifyCalls,    \* history: number of notify_one calls
    zeroSeen,       \* history: number of fetch_sub calls that returned 1
    lastRel,        \* history: the handle whose fetch_sub returned 1
    made            \* history: cells, channels and tasks created so far

vars == <<count, strong, nstrong, permit, hpc, src, spc, value, outcome, join,
          abortReq, payloadPanics, asyncDropBy, asyncDropCalls, notifyCalls,
          zeroSeen, lastRel, made>>

cellVars == <<count, strong, nstrong, permit, value>>
taskVars == <<spc, outcome>>
joinVars == <<join, abortReq>>
histVars ==
    <<asyncDropBy, asyncDropCalls, notifyCalls, zeroSeen, lastRel, made>>

\* Handle positions.
\*   unborn       not created (yet)
\*   cloneInner   Arcy::clone did fetch_add, next is Arc::clone(&this.inner)
\*   cloneNotify  next is Arc::clone(&this.notify) and returning Self
\*   live         owned by some task, not borrowed by deref
\*   deref        a &T obtained through Deref::deref is in use
\*   fence        Drop::drop: fetch_sub returned 1, next is fence(Acquire)
\*   notify       Drop::drop: next is notify.notify_one()
\*   fields       Drop::drop returned, next the field `inner` is dropped
\*   dropNotify   next the field `notify` is dropped
\*   gone         the handle no longer exists
HandlePcs == {"unborn", "cloneInner", "cloneNotify", "live", "deref", "fence",
              "notify", "fields", "dropNotify", "gone"}

\* Slayer positions.
\*   spawned      tokio::spawn done, future never polled
\*   waiting      suspended in notify.notified().await
\*   woken        notify_one woke the waiting task, which is not yet polled
\*   unwrap       past notified().await, next is Arc::try_unwrap(inner)
\*   finalize     try_unwrap returned Ok, next is inner.0.async_drop()
\*   asyncDrop    inside async_drop(self).await
\*   done         async_drop ended (returned or panicked), task over
\*   unreachable  try_unwrap returned Err: unreachable!() panicked, task over
\*   cancelled    the task was aborted through its JoinHandle, task over
SlayerPcs == {"spawned", "waiting", "woken", "unwrap", "finalize", "asyncDrop",
              "done", "unreachable", "cancelled"}

Outcomes == {"pending", "ok", "panic", "cancelled"}

TypeOK ==
    /\ count \in Int
    /\ strong \in Int
    /\ nstrong \in Int
    /\ permit \in BOOLEAN
    /\ hpc \in [Handles -> HandlePcs]
    /\ src \in [Handles -> Handles \cup {NoHandle}]
    /\ spc \in SlayerPcs
    /\ value \in {"alive", "dropped"}
    /\ outcome \in Outcomes
    /\ join \in {"held", "resolved", "dropped"}
    /\ abortReq \in BOOLEAN
    /\ payloadPanics \in BOOLEAN
    /\ asyncDropBy \subseteq {"slayer", "handle"}
    /\ asyncDropCalls \in Nat
    /\ notifyCalls \in Nat
    /\ zeroSeen \in Nat
    /\ lastRel \in Handles \cup {NoHandle}
    /\ made \in [cells : Nat, channels : Nat, tasks : Nat]

\* Arcy::new: the cell with count 1, the Notify, the spawned slayer holding a
\* clone of both Arcs, the first handle and the JoinHandle.
Init ==
    /\ count = 1
    /\ strong = 2
    /\ nstrong = 2
    /\ permit = FALSE
    /\ hpc = [h \in Handles |-> IF h = 1 THEN "live" ELSE "unborn"]
    /\ src = [h \in Handles |-> NoHandle]
    /\ spc = "spawned"
    /\ value = "alive"
    /\ outcome = "pending"
    /\ join = "held"
    /\ abortReq = FALSE
    /\ payloadPanics \in BOOLEAN
    /\ asyncDropBy = {}
    /\ asyncDropCalls = 0
    /\ notifyCalls = 0
    /\ zeroSeen = 0
    /\ lastRel = NoHandle
    /\ made = [cells |-> 1, channels |-> 1, tasks |-> 1]

\* Dropping one Arc<ArcyInner<T>>: the allocation, and with it the payload, is
\* destroyed (plain drop, no async_drop) when the strong count falls to zero.
ValueAfterArcDrop == IF strong - 1 = 0 THEN "dropped" ELSE value

\* A handle is borrowed while an Arcy::clone of it is running.
Borrowed(h) == \E c \in Handles : src[c] = h

\* Handles are named in creation order.
NextUnborn(c) == hpc[c] = "unborn" /\ \A d \in Handles : d < c => hpc[d] # "unborn"

(***************************************************************************)
(* Arcy::clone(this)                                                       *)
(***************************************************************************)

\* Variant: a clone that returns the new handle without counting it.
CloneFetchAdd_NoIncrement(s, c) ==
    /\ hpc[s] \in {"live", "deref"}
    /\ NextUnborn(c)
    /\ hpc' = [hpc EXCEPT ![c] = "cloneInner"]
    /\ src' = [src EXCEPT ![c] = s]
    /\ UNCHANGED <<cellVars, taskVars, joinVars, payloadPanics, histVars>>

\* this.inner.1.fetch_add(1, Relaxed), run by a task that borrows handle s;
\* c names the handle the call will return.
CloneFetchAdd(s, c) ==
    /\ hpc[s] \in {"live", "deref"}
    /\ NextUnborn(c)
    /\ count' = count + 1
    /\ hpc' = [hpc EXCEPT ![c] = "cloneInner"]
    /\ src' = [src EXCEPT ![c] = s]
    /\ UNCHANGED <<strong, nstrong, permit, value, taskVars, joinVars,
                   payloadPanics, histVars>>

\* Variant: a clone that aliases the cell without taking a strong reference.
CloneArcInner_NoStrong(c) ==
    /\ hpc[c] = "cloneInner"
    /\ hpc' = [hpc EXCEPT ![c] = "cloneNotify"]
    /\ UNCHANGED <<cellVars, src, taskVars, joinVars, payloadPanics, histVars>>

\* let inner = Arc::clone(&this.inner)
CloneArcInner(c) ==
    /\ hpc[c] = "cloneInner"
    /\ strong' = strong + 1
    /\ hpc' = [hpc EXCEPT ![c] = "cloneNotify"]
    /\ UNCHANGED <<count, nstrong, permit, value, src, taskVars, joinVars,
                   payloadPanics, histVars>>

\* Variant: the clone gets a Notify of its own (Arc::new(Notify::new())).
CloneArcNotify_NewChannel(c) ==
    /\ hpc[c] = "cloneNotify"
    /\ made' = [made EXCEPT !.channels = @ + 1]
    /\ hpc' = [hpc EXCEPT ![c] = "live"]
    /\ src' = [src EXCEPT ![c] = NoHandle]
    /\ UNCHANGED <<cellVars, taskVars, joinVars, payloadPanics, asyncDropBy,
                   asyncDropCalls, notifyCalls, zeroSeen, lastRel>>

\* let notify = Arc::clone(&this.notify); Self { inner, notify }
CloneArcNotify(c) ==
    /\ hpc[c] = "cloneNotify"
    /\ nstrong' = nstrong + 1
    /\ hpc' = [hpc EXCEPT ![c] = "live"]
    /\ src' = [src EXCEPT ![c] = NoHandle]
    /\ UNCHANGED <<count, strong, permit, value, taskVars, joinVars,
                   payloadPanics, histVars>>

(***************************************************************************)
(* Deref::deref: the &T lives no longer than the borrow of the handle.     *)
(***************************************************************************)

DerefBegin(h) ==
    /\ hpc[h] = "live"
    /\ hpc' = [hpc EXCEPT ![h] = "deref"]
    /\ UNCHANGED <<cellVars, src, taskVars, joinVars, payloadPanics, histVars>>

DerefEnd(h) ==
    /\ hpc[h] = "deref"
    /\ hpc' = [hpc EXCEPT ![h] = "live"]
    /\ UNCHANGED <<cellVars, src, taskVars, joinVars, payloadPanics, histVars>>

(***************************************************************************)
(* Drop for Arcy, then the drop of the handle's two fields.                *)
(***************************************************************************)

\* Variant: the count is read, not decremented (load() != 1).
DropFetchSub_LoadOnly(h) ==
    /\ hpc[h] = "live"
    /\ ~Borrowed(h)
    /\ IF count # 1
         THEN /\ hpc' = [hpc EXCEPT ![h] = "fields"]
              /\ zeroSeen' = zeroSeen
              /\ lastRel' = lastRel
         ELSE /\ hpc' = [hpc EXCEPT ![h] = "fence"]
              /\ zeroSeen' = zeroSeen + 1
              /\ lastRel' = h
    /\ UNCHANGED <<cellVars, src, taskVars, joinVars, payloadPanics,
                   asyncDropBy, asyncDropCalls, notifyCalls,
                   made>>

\* Variant: the early return is missing, every release goes on to signal.
DropFetchSub_NoEarlyReturn(h) ==
    /\ hpc[h] = "live"
    /\ ~Borrowed(h)
    /\ count' = count - 1
    /\ hpc' = [hpc EXCEPT ![h] = "fence"]
    /\ zeroSeen' = IF count = 1 THEN zeroSeen + 1 ELSE zeroSeen
    /\ lastRel' = IF count = 1 THEN h ELSE lastRel
    /\ UNCHANGED <<strong, nstrong, permit, value, src, taskVars, joinVars,
                   payloadPanics, asyncDropBy, asyncDropCalls, notifyCalls,
                   made>>

\* if self.inner.1.fetch_sub(1, Release) != 1 { return; }
\* The count is kept as an integer: a fetch_sub on 0, which wraps the
\* AtomicUsize, shows as a negative count.
DropFetchSub(h) ==
    /\ hpc[h] = "live"
    /\ ~Borrowed(h)
    /\ count' = count - 1
    /\ IF count # 1
         THEN /\ hpc' = [hpc EXCEPT ![h] = "fields"]
              /\ zeroSeen' = zeroSeen
              /\ lastRel' = lastRel
         ELSE /\ hpc' = [hpc EXCEPT ![h] = "fence"]
              /\ zeroSeen' = zeroSeen + 1
              /\ lastRel' = h
    /\ UNCHANGED <<strong, nstrong, permit, value, src, taskVars, joinVars,
                   payloadPanics, asyncDropBy, asyncDropCalls, notifyCalls,
                   made>>

\* atomic::fence(Acquire)
DropFence(h) ==
    /\ hpc[h] = "fence"
    /\ hpc' = [hpc EXCEPT ![h] = "notify"]
    /\ UNCHANGED <<cellVars, src, taskVars, joinVars, payloadPanics, histVars>>

\* Variant: the last release waits until the slayer task is waiting before it
\* signals.
DropNotifyOne_WaitsForTask(h) ==
    /\ hpc[h] = "notify"
    /\ spc = "waiting"
    /\ hpc' = [hpc EXCEPT ![h] = "fields"]
    /\ spc' = "woken"
    /\ notifyCalls' = notifyCalls + 1
    /\ UNCHANGED <<cellVars, src, outcome, joinVars, payloadPanics,
                   asyncDropBy, asyncDropCalls, zeroSeen, lastRel, made>>

\* Variant: notify_waiters() in place of notify_one(): a waiting task is
\* woken, but no permit is stored when none waits.
DropNotifyOne_NotifyWaiters(h) ==
    /\ hpc[h] = "notify"
    /\ hpc' = [hpc EXCEPT ![h] = "fields"]
    /\ spc' = IF spc = "waiting" THEN "woken" ELSE spc
    /\ notifyCalls' = notifyCalls + 1
    /\ UNCHANGED <<cellVars, src, outcome, joinVars, payloadPanics,
                   asyncDropBy, asyncDropCalls, zeroSeen, lastRel, made>>

\* Variant: the last release also runs the finalizer itself, in place.
DropNotifyOne_RunsFinalizer(h) ==
    /\ hpc[h] = "notify"
    /\ hpc' = [hpc EXCEPT ![h] = "fields"]
    /\ IF spc = "waiting"
         THEN spc' = "woken" /\ permit' = permit
         ELSE spc' = spc /\ permit' = TRUE
    /\ notifyCalls' = notifyCalls + 1
    /\ asyncDropCalls' = asyncDropCalls + 1
    /\ asyncDropBy' = asyncDropBy \cup {"handle"}
    /\ UNCHANGED <<count, strong, nstrong, value, src, outcome, joinVars,
                   payloadPanics, zeroSeen, lastRel, made>>

\* self.notify.notify_one(): a waiting task is woken, otherwise the Notify
\* stores a (single) permit.
DropNotifyOne(h) ==
    /\ hpc[h] = "notify"
    /\ hpc' = [hpc EXCEPT ![h] = "fields"]
    /\ IF spc = "waiting"
         THEN spc' = "woken" /\ permit' = permit
         ELSE spc' = spc /\ permit' = TRUE
    /\ notifyCalls' = notifyCalls + 1
    /\ UNCHANGED <<count, strong, nstrong, value, src, outcome, joinVars,
                   payloadPanics, asyncDropBy, asyncDropCalls, zeroSeen,
                   lastRel, made>>

\* After Drop::drop returned the fields are dropped in declaration order:
\* first `inner: Arc<ArcyInner<T>>` ...
DropFieldInner(h) ==
    /\ hpc[h] = "fields"
    /\ strong' = strong - 1
    /\ value' = ValueAfterArcDrop
    /\ hpc' = [hpc EXCEPT ![h] = "dropNotify"]
    /\ UNCHANGED <<count, nstrong, permit, src, taskVars, joinVars,
                   payloadPanics, histVars>>

\* ... then `notify: Arc<Notify>`.
DropFieldNotify(h) ==
    /\ hpc[h] = "dropNotify"
    /\ nstrong' = nstrong - 1
    /\ hpc' = [hpc EXCEPT ![h] = "gone"]
    /\ UNCHANGED <<count, strong, permit, value, src, taskVars, joinVars,
                   payloadPanics, histVars>>

(***************************************************************************)
(* Arcy::slayer, the task spawned by Arcy::new.                            *)
(***************************************************************************)

\* Variant: the Notified future is created but not awaited, the task goes on
\* without a signal.
SlayerFirstPoll_NoWait ==
    /\ spc = "spawned"
    /\ spc' = "unwrap"
    /\ UNCHANGED <<cellVars, hpc, src, outcome, joinVars, payloadPanics,
                   histVars>>

\* First poll of notify.notified().await: a stored permit is consumed and the
\* task goes on in the same poll, otherwise the task suspends.
SlayerFirstPoll ==
    /\ spc = "spawned"
    /\ IF permit
         THEN spc' = "unwrap" /\ permit' = FALSE
         ELSE spc' = "waiting" /\ permit' = permit
    /\ UNCHANGED <<count, strong, nstrong, value, hpc, src, outcome, joinVars,
                   payloadPanics, histVars>>

\* The woken task is polled again: notified() is ready.
SlayerResume ==
    /\ spc = "woken"
    /\ spc' = "unwrap"
    /\ UNCHANGED <<cellVars, hpc, src, outcome, joinVars, payloadPanics,
                   histVars>>

\* let inner = Arc::try_unwrap(inner).unwrap_or_else(|_| unreachable!());
\* try_unwrap gives the cell only to the sole strong holder.  Otherwise it
\* returns the Arc back, unreachable!() panics, and the unwinding drops that
\* Arc and the task's Arc<Notify>; the runtime stores the panic for the
\* JoinHandle.
SlayerTryUnwrap ==
    /\ spc = "unwrap"
    /\ IF strong = 1
         THEN /\ strong' = 0
              /\ spc' = "finalize"
              /\ UNCHANGED <<nstrong, value, outcome>>
         ELSE /\ strong' = strong - 1
              /\ value' = ValueAfterArcDrop
              /\ nstrong' = nstrong - 1
              /\ spc' = "unreachable"
              /\ outcome' = "panic"
    /\ UNCHANGED <<count, permit, hpc, src, joinVars, payloadPanics, histVars>>

\* inner.0.async_drop(): the finalizer is invoked on the payload, by value.
SlayerAsyncDrop ==
    /\ spc = "finalize"
    /\ spc' = "asyncDrop"
    /\ asyncDropCalls' = asyncDropCalls + 1
    /\ asyncDropBy' = asyncDropBy \cup {"slayer"}
    /\ UNCHANGED <<cellVars, hpc, src, outcome, joinVars, payloadPanics,
                   notifyCalls, zeroSeen, lastRel, made>>

\* Variant: the body of slayer is a loop, after the finalizer the task waits
\* for the next signal.
SlayerAsyncDropEnd_WaitsAgain ==
    /\ spc = "asyncDrop"
    /\ spc' = "waiting"
    /\ value' = "dropped"
    /\ UNCHANGED <<count, strong, nstrong, permit, hpc, src, outcome, joinVars,
                   payloadPanics, histVars>>

\* Variant: a panic of the finalizer is caught and the task ends normally.
SlayerAsyncDropEnd_SwallowsPanic ==
    /\ spc = "asyncDrop"
    /\ spc' = "done"
    /\ value' = "dropped"
    /\ outcome' = "ok"
    /\ nstrong' = nstrong - 1
    /\ UNCHANGED <<count, strong, permit, hpc, src, joinVars, payloadPanics,
                   histVars>>

\* .await of async_drop ends: the finalizer returned or panicked.  It owned
\* the payload, which is destroyed with it; the task ends and its Arc<Notify>
\* is dropped.
SlayerAsyncDropEnd ==
    /\ spc = "asyncDrop"
    /\ spc' = "done"
    /\ value' = "dropped"
    /\ outcome' = IF payloadPanics THEN "panic" ELSE "ok"
    /\ nstrong' = nstrong - 1
    /\ UNCHANGED <<count, strong, permit, hpc, src, joinVars, payloadPanics,
                   histVars>>

\* An aborted task is cancelled where it is suspended or before it is polled:
\* its future is dropped with everything it owns (the Arc of the cell, or the
\* payload once inside async_drop, and the Arc<Notify>).
SlayerCancel ==
    /\ abortReq
    /\ spc \in {"spawned", "waiting", "woken", "asyncDrop"}
    /\ spc' = "cancelled"
    /\ outcome' = "cancelled"
    /\ nstrong' = nstrong - 1
    /\ IF spc = "asyncDrop"
         THEN value' = "dropped" /\ strong' = strong
         ELSE value' = ValueAfterArcDrop /\ strong' = strong - 1
    /\ UNCHANGED <<count, permit, hpc, src, joinVars, payloadPanics, histVars>>

(***************************************************************************)
(* The JoinHandle<()> returned by Arcy::new, in the caller's hands.        *)
(***************************************************************************)

\* last_foo.await: resolves once the task is over, with its stored outcome.
JoinAwait ==
    /\ join = "held"
    /\ outcome # "pending"
    /\ join' = "resolved"
    /\ UNCHANGED <<cellVars, hpc, src, taskVars, abortReq, payloadPanics,
                   histVars>>

\* JoinHandle::abort
JoinAbort ==
    /\ join = "held"
    /\ ~abortReq
    /\ abortReq' = TRUE
    /\ UNCHANGED <<cellVars, hpc, src, taskVars, join, payloadPanics, histVars>>

\* Dropping the JoinHandle detaches the task.
JoinDrop ==
    /\ join = "held"
    /\ join' = "dropped"
    /\ UNCHANGED <<cellVars, hpc, src, taskVars, abortReq, payloadPanics,
                   histVars>>

(***************************************************************************)
(* Specifications                                                          *)
(***************************************************************************)

Clone == \E s, c \in Handles : CloneFetchAdd(s, c)
CloneStep == \E c \in Handles : CloneArcInner(c) \/ CloneArcNotify(c)
Deref == \E h \in Handles : DerefBegin(h) \/ DerefEnd(h)
DropStart == \E h \in Handles : DropFetchSub(h)
DropStep ==
    \E h \in Handles :
        DropFence(h) \/ DropNotifyOne(h) \/ DropFieldInner(h) \/ DropFieldNotify(h)
SlayerStep ==
    \/ SlayerFirstPoll
    \/ SlayerResume
    \/ SlayerTryUnwrap
    \/ SlayerAsyncDrop
    \/ SlayerAsyncDropEnd

HandleNext == Clone \/ CloneStep \/ Deref \/ DropStart \/ DropStep

\* Any use of the handles and of the JoinHandle.
Next == HandleNext \/ SlayerStep \/ SlayerCancel \/ JoinAwait \/ JoinAbort \/ JoinDrop

Spec == Init /\ [][Next]_vars

\* The caller only awaits the JoinHandle, as in the documentation's example.
NextAwait == HandleNext \/ SlayerStep \/ JoinAwait

SpecAwait == Init /\ [][NextAwait]_vars

\* The same, with the scheduling the runtime gives: a spawned or woken task is
\* polled, a running poll goes on, a drop or clone that began runs to its
\* end (they are synchronous code), and the caller's await is polled once
\* the task is over.
FairAwait ==
    /\ SpecAwait
    /\ WF_vars(SlayerStep)
    /\ WF_vars(CloneStep)
    /\ WF_vars(DropStep)
    /\ WF_vars(JoinAwait)

\* Releases that are atomic for the slayer task, as on a single-threaded
\* runtime where a synchronous drop cannot be interleaved with a poll of
\* another task: the task is polled only while no release is in progress.
NoReleaseInProgress ==
    \A h \in Handles : hpc[h] \notin {"fence", "notify", "fields", "dropNotify"}

SlayerStepBetweenReleases == NoReleaseInProgress /\ SlayerStep

NextAtomic == HandleNext \/ SlayerStepBetweenReleases \/ JoinAwait

SpecAtomic == Init /\ [][NextAtomic]_vars

FairAtomic ==
    /\ SpecAtomic
    /\ WF_vars(SlayerStepBetweenReleases)
    /\ WF_vars(CloneStep)
    /\ WF_vars(DropStep)
    /\ WF_vars(JoinAwait)

(***************************************************************************)
(* Properties                                                              *)
(***************************************************************************)

\* Handles that exist and have not begun their release.
Outstanding == {h \in Handles : hpc[h] \in {"live", "deref"}}

\* Clone calls that did their fetch_add and have not yet returned the handle.
ClonesInFlight == {h \in Handles : hpc[h] \in {"cloneInner", "cloneNotify"}}

\* Handles that own a strong reference to the cell.
HoldingCell ==
    {h \in Handles : hpc[h] \in {"cloneNotify", "live", "deref", "fence",
                                 "notify", "fields"}}

Gone == {h \in Handles : hpc[h] = "gone"}

\* Every handle ever created has been released completely.
AllReleased == \A h \in Handles : hpc[h] \in {"unborn", "gone"}

\* C1: async_drop is invoked at most once for the cell, and only by the
\* slayer task, never by a releasing handle.
C1_FinalizerAtMostOnceBySlayer ==
    /\ asyncDropCalls <= 1
    /\ asyncDropBy \subseteq {"slayer"}

C1_Witness ==
    /\ asyncDropCalls = 1
    /\ spc = "done"
    /\ Cardinality(Gone) = MaxHandles

\* C2: whenever async_drop has started, no handle is outstanding (every
\* handle ever created has begun its release, none is being cloned) and
\* count is 0.
C2_NoFinalizerWhileOutstanding ==
    asyncDropCalls >= 1 =>
        /\ Outstanding = {}
        /\ ClonesInFlight = {}
        /\ count = 0

C2_Witness ==
    /\ spc = "asyncDrop"
    /\ Cardinality(Gone) >= 2
    /\ count = 0

\* C3: once every handle has been released, a finalizer that completes is
\* eventually run and the JoinHandle resolves with Ok.
C3_AllReleasedLeadsToOk ==
    (AllReleased /\ ~payloadPanics) ~> (join = "resolved" /\ outcome = "ok")

\* C4: Arc::try_unwrap in slayer always succeeds, the unreachable!() branch
\* is never executed.
C4_UnreachableNeverExecuted == spc # "unreachable"

\* C5: the payload is destroyed only after async_drop has been invoked on it
\* and has ended.
C5_ValueDroppedOnlyAfterFinalizer ==
    value = "dropped" => (asyncDropCalls = 1 /\ spc = "done")

\* C6 (as stated): in every reachable state count equals the number of live
\* handles, those created and whose release has not yet decremented.
C6_CountEqualsLiveHandles == count = Cardinality(Outstanding)

\* C6 (amended): count equals the number of live handles plus the number of
\* clone calls that have incremented and not yet returned their handle; it
\* is never negative (no wrap-around of the unsigned counter).
C6_CountEqualsLivePlusCloning ==
    /\ count = Cardinality(Outstanding) + Cardinality(ClonesInFlight)
    /\ count >= 0

C6_Witness ==
    /\ count = 2
    /\ Cardinality(ClonesInFlight) = 1
    /\ Cardinality(Outstanding) = 1
    /\ Cardinality(HoldingCell \ Outstanding) = 1

\* C7: a finalizer that panics shows as the error outcome of the task for
\* its JoinHandle, was invoked exactly once, and the cell (allocation and
\* payload) is reclaimed all the same.
C7_FinalizerFailureObservable ==
    (payloadPanics /\ spc = "done") =>
        /\ outcome = "panic"
        /\ asyncDropCalls = 1
        /\ value = "dropped"
        /\ strong = 0

C7_Witness ==
    /\ payloadPanics
    /\ spc = "done"
    /\ join = "resolved"
    /\ outcome = "panic"

\* C8: nothing done with the JoinHandle (awaiting, dropping, aborting it)
\* prevents or interrupts the finalization: the slayer task is never
\* cancelled.
C8_JoinTokenNeverStopsFinalization == spc # "cancelled"

\* C9: at most one release observes the previous count 1, only that release
\* calls notify_one (so at most one signal), and a count that reached 0
\* never becomes positive again.
C9_SingleZeroTransition ==
    [][/\ zeroSeen' <= 1
       /\ notifyCalls' <= zeroSeen'
       /\ (count = 0 => count' = 0)]_vars

C9_Witness ==
    /\ zeroSeen = 1
    /\ notifyCalls = 1
    /\ count = 0
    /\ Cardinality(Gone) = MaxHandles

\* C10: once async_drop has been invoked no handle holds a reference to the
\* cell, not even one in the middle of its release, and no deref borrow is
\* in use: the handles' phase and the slayer's phase do not overlap.
C10_NoHandleHoldsCellInFinalization ==
    asyncDropCalls >= 1 =>
        /\ HoldingCell = {}
        /\ \A h \in Handles : hpc[h] \in {"unborn", "dropNotify", "gone"}
        /\ strong = 0

C10_Witness ==
    /\ spc = "asyncDrop"
    /\ \E h \in Handles : hpc[h] = "dropNotify"
    /\ \E h \in Handles : hpc[h] = "gone"

\* A step of the release of handle h, a release that is not the last one
\* (its fetch_sub returned more than 1): the fetch_sub itself, or one of the
\* two field drops that end the release.
NonLastReleaseStep(h) ==
    /\ hpc[h] \in {"live", "fields", "dropNotify"}
    /\ hpc'[h] \in {"fields", "dropNotify", "gone"}
    /\ hpc'[h] # hpc[h]
    /\ lastRel' # h

\* C11: a release that is not the last one lowers count by one and does
\* nothing else: no signal, and the slayer task, the payload and every other
\* handle are left as they are.
C11_NonLastReleaseOnlyDecrements ==
    [][\A h \in Handles :
          NonLastReleaseStep(h) =>
              /\ count' = IF hpc[h] = "live" THEN count - 1 ELSE count
              /\ UNCHANGED <<permit, notifyCalls, spc, outcome, value>>
              /\ \A g \in Handles \ {h} : hpc'[g] = hpc[g]]_vars

\* The slayer has left its wait: it was woken or is past notified().await.
PastWait ==
    spc \in {"woken", "unwrap", "finalize", "asyncDrop", "done", "unreachable"}

\* C12: the slayer leaves its wait only after it was signalled: whenever it
\* is past notified().await, the release that observed the previous count 1
\* has called notify_one.
C12_ResumeOnlyAfterSignal ==
    PastWait =>
        /\ zeroSeen = 1
        /\ notifyCalls >= 1
        /\ lastRel # NoHandle
        /\ hpc[lastRel] \in {"fields", "dropNotify", "gone"}

C12_Witness ==
    /\ spc = "unwrap"
    /\ notifyCalls = 1
    /\ ~permit
    /\ lastRel = 2

\* The last release has signalled and the slayer has not been polled yet.
SignalledBeforeWait == notifyCalls >= 1 /\ spc = "spawned"

\* C13: no lost wake-up: a signal sent before the slayer started to wait is
\* kept as a permit of the Notify, and the slayer then leaves
\* notified().await and goes on to its finalizing part (Arc::try_unwrap)
\* instead of waiting forever.
C13_NoLostWakeup ==
    /\ [](SignalledBeforeWait => permit)
    /\ [](~(spc = "waiting" /\ permit))
    /\ (SignalledBeforeWait ~> PastWait)

C13_Witness ==
    /\ SignalledBeforeWait
    /\ permit
    /\ hpc[1] = "gone"
    /\ hpc[2] = "unborn"

\* Handles that own a strong reference to the Notify.
HoldingNotify ==
    {h \in Handles : hpc[h] \in {"live", "deref", "fence", "notify", "fields",
                                 "dropNotify"}}

\* References the slayer task owns: the Arc of the cell until try_unwrap or
\* the end of the task, the Arc of the Notify until the end of the task.
SlayerCellRefs == IF spc \in {"spawned", "waiting", "woken", "unwrap"} THEN 1 ELSE 0
SlayerNotifyRefs == IF spc \in {"done", "unreachable", "cancelled"} THEN 0 ELSE 1

\* C14: the cell has one slayer task and one Notify for its whole life: only
\* Arcy::new creates them, and every handle, however many clones are made,
\* refers to that one cell and that one Notify (each reference is counted on
\* the one allocation).
C14_OneTaskOneChannel ==
    /\ made = [cells |-> 1, channels |-> 1, tasks |-> 1]
    /\ nstrong = Cardinality(HoldingNotify) + SlayerNotifyRefs
    /\ strong = Cardinality(HoldingCell) + SlayerCellRefs

C14_Witness ==
    /\ Cardinality(Outstanding) = MaxHandles
    /\ nstrong = MaxHandles + 1
    /\ strong = MaxHandles + 1

\* How far a handle is through clone (1, 2), use (3) and release (4 to 8).
HandleRank(pc) ==
    CASE pc = "unborn" -> 0
      [] pc = "cloneInner" -> 1
      [] pc = "cloneNotify" -> 2
      [] pc \in {"live", "deref"} -> 3
      [] pc = "fence" -> 4
      [] pc = "notify" -> 5
      [] pc = "fields" -> 6
      [] pc = "dropNotify" -> 7
      [] pc = "gone" -> 8

\* The next step of a clone or release in progress can be taken, and a
\* release or clone of a usable handle can begin, whatever the slayer does.
CanStep(h) ==
    /\ hpc[h] = "cloneInner" => ENABLED CloneArcInner(h)
    /\ hpc[h] = "cloneNotify" => ENABLED CloneArcNotify(h)
    /\ hpc[h] = "fence" => ENABLED DropFence(h)
    /\ hpc[h] = "notify" => ENABLED DropNotifyOne(h)
    /\ hpc[h] = "fields" => ENABLED DropFieldInner(h)
    /\ hpc[h] = "dropNotify" => ENABLED DropFieldNotify(h)
    /\ (hpc[h] = "live" /\ ~Borrowed(h)) => ENABLED DropFetchSub(h)
    /\ (hpc[h] \in {"live", "deref"} /\ \E c \in Handles : hpc[c] = "unborn")
           => ENABLED (\E c \in Handles : CloneFetchAdd(h, c))

\* C15: release and clone never block and never retry: in every state of
\* the slayer task the next step of each of them can be taken, and every
\* step of a handle moves it forward (a clone is 3 steps, a release at most
\* 5), so none waits for the finalizer to start or to end.
C15_CloneAndReleaseNonBlocking ==
    /\ [](\A h \in Handles : CanStep(h))
    /\ [][\A h \in Handles :
             hpc'[h] # hpc[h] =>
                 \/ HandleRank(hpc'[h]) > HandleRank(hpc[h])
                 \/ {hpc[h], hpc'[h]} = {"live", "deref"}]_vars

C15_Witness ==
    /\ spc = "cancelled"
    /\ \E h \in Handles : hpc[h] = "notify"
    /\ \E h \in Handles : hpc[h] = "fields"

\* The order of the slayer's positions; the three ways the task ends rank
\* last.
SlayerRank(pc) ==
    CASE pc = "spawned" -> 0
      [] pc = "waiting" -> 1
      [] pc = "woken" -> 2
      [] pc = "unwrap" -> 3
      [] pc = "finalize" -> 4
      [] pc = "asyncDrop" -> 5
      [] pc \in {"done", "unreachable", "cancelled"} -> 6

SlayerOver == spc \in {"done", "unreachable", "cancelled"}

\* C16: the slayer's life is monotone: from its wait it moves on to the
\* finalizing part at most once and never comes back to the wait; once the
\* task is over it stays over, invokes nothing more, and after a finished
\* finalization the cell is touched no more.
C16_SlayerLifecycleMonotone ==
    [][/\ SlayerRank(spc') >= SlayerRank(spc)
       /\ (spc' = "waiting" => spc \in {"spawned", "waiting"})
       /\ (spc' = "finalize" /\ spc # "finalize" => asyncDropCalls = 0)
       /\ (SlayerOver => spc' = spc /\ asyncDropCalls' = asyncDropCalls)
       /\ (spc = "done" => UNCHANGED <<strong, value, count, permit>>)]_vars

C16_Witness ==
    /\ spc = "done"
    /\ asyncDropCalls = 1
    /\ ~payloadPanics
    /\ ~permit
    /\ AllReleased

\* The finalizer ran to its end and the JoinHandle resolved with Ok.
FinalizedOk ==
    /\ spc = "done"
    /\ asyncDropCalls = 1
    /\ outcome = "ok"
    /\ join = "resolved"

Quiescent == \A h \in Handles : hpc[h] \in {"unborn", "live", "deref", "gone"}

\* C18: while no clone or release is mid-operation and the slayer has not
\* yet taken the cell out of its Arc, the Arc's strong count is the explicit
\* count plus 1, the reference of the slayer task.
C18_StrongIsCountPlusOne ==
    (Quiescent /\ spc \notin {"finalize", "asyncDrop", "done"}) =>
        strong = count + 1

====
